---- MODULE Spec2Model ----
(***************************************************************************)
(* A model of the video context generation pipeline:                       *)
(*   - the caption scheduler and its workers (caption_images_enhanced.py), *)
(*   - the two-pass global context builder (global_context_builder.py),    *)
(*   - the timestamp planner and frame extraction (frameExtractor.py),     *)
(*   - the transcript window query and the caption store, each on its own, *)
(*   - the full transcript and the frame sampling of the builder, each on  *)
(*     its own,                                                            *)
(*   - the pipeline entry point that runs the phases (main_pipeline_v2.py).*)
(*                                                                         *)
(* Times are integers in ticks of 1/900 s: a centisecond is 9 ticks, so    *)
(* rounding to 2 decimals never meets a tie, and keyframe timestamps are   *)
(* multiples of 3 ticks, so the thirds of an interval are whole ticks.     *)
(***************************************************************************)
EXTENDS Integers, Sequences, FiniteSets, TLC

\* ---------------------------------------------------------------- bounds
MaxFrames == 2
MaxKeyframes == 3
MaxGcImages == 2

\* ---------------------------------------------------------------- options
\* An optional value (a file that may be absent, None) is a sequence of
\* length at most one.
None == <<>>
Some(v) == <<v>>
IsSome(o) == Len(o) = 1
Get(o) == o[1]

Min(S) == CHOOSE x \in S : \A y \in S : x <= y

\* ---------------------------------------------------------------- JSON
\* A JSON text is <<"json", v>> (well-formed, denoting the value v) or
\* <<"text", s>> (not JSON).  A JSON value is <<"obj", record>> or
\* <<"arr", sequence>>.
json_dumps(v) == <<"json", v>>
json_parses(s) == s[1] = "json"
json_loads(s) == s[2]
Obj(r) == <<"obj", r>>
Arr(q) == <<"arr", q>>
IsObj(v) == v[1] = "obj"

\* d[k] = v on a dict d
SetItem(d, k, v) == [x \in (DOMAIN d) \cup {k} |-> IF x = k THEN v ELSE d[x]]

VARIABLES
    \* caption scheduler (caption_images_enhanced.py)
    images,          \* the sorted list of image files, as their stems in centiseconds
    max_workers,     \* size of the thread pool
    transcript_cache,\* what load_transcript_cache returned
    global_context_text, \* the formatted global context handed to every invocation
    sched_pc,        \* position of process_video_images
    submitted,       \* number of futures submitted so far
    task_pc,         \* position of each process_single_image invocation
    task_res,        \* how each invocation ended
    fault,           \* the failure each invocation met before saving
    content,         \* content_dict / exception in hand of each invocation
    caption_file,    \* the caption file of each frame
    yielded,         \* futures as_completed has yielded
    completed,       \* the progress counter
    lock,            \* whether the lock is held
    \* global context builder (global_context_builder.py)
    gc_file,         \* global_context.json
    gc_images,       \* number of image files in the images folder
    gc_pc,           \* position of gcb.execute
    gc_force,        \* force_rebuild of the call in progress
    gc_sampled,      \* sampled frames of the build in progress
    gc_desc,         \* frame_descriptions of the build in progress
    gc_context,      \* result of _synthesize_context of the call in progress
    gc_calls,        \* inference calls issued by the call in progress
    gc_log,          \* the last two finished calls of execute, older first
    \* timestamp planner (frameExtractor.py)
    keyframes,       \* pts_time of the keyframes the probe reports
    duration,        \* format=duration the probe reports
    video_exists,    \* whether the video file exists
    fe_pc,           \* position of frameExtractor.execute
    fe_keyframes,    \* keyframes in hand
    keyframes_file,  \* frames/keyframes.json
    all_frames_file, \* frames/all_frames.json
    image_files,     \* names of the files in the images folder
    \* transcript window queries (get_transcript_from_cache)
    win_rows,        \* transcript_data, as load_transcript_cache returned it
    win_query,       \* the last query: timestamp, window and what came back
    win_full,        \* what the last call of get_full_transcript returned
    \* the caption store, one key (save_caption)
    st_file,         \* the caption file of the key
    st_call,         \* the last call of save_caption: its input and outcome
    \* the pipeline (main_pipeline_v2.py)
    main_pc,         \* position of main
    skip_extraction, \* argument of main
    force_rebuild_context, \* argument of main
    audio_ok,        \* whether the video's audio can be demuxed and transcribed
    main_return,     \* what main returned
    phases,          \* the phases main has started, in order
    transcript_file, \* audio/transcript_16k_word_ts.csv
    \* frame sampling, on its own (sample_keyframes)
    smp_in,          \* the number of image files and max_frames
    smp_out          \* what the call returned

capVars == <<images, max_workers, transcript_cache, global_context_text, sched_pc,
             submitted, task_pc, task_res, fault, content, caption_file, yielded,
             completed, lock>>
gcVars == <<gc_file, gc_images, gc_pc, gc_force, gc_sampled, gc_desc, gc_context,
            gc_calls, gc_log>>
feVars == <<keyframes, duration, video_exists, fe_pc, fe_keyframes, keyframes_file,
            all_frames_file, image_files>>
winVars == <<win_rows, win_query, win_full>>
stVars == <<st_file, st_call>>
mainVars == <<main_pc, skip_extraction, force_rebuild_context, audio_ok, main_return,
              phases, transcript_file>>
smpVars == <<smp_in, smp_out>>
vars == <<capVars, gcVars, feVars, winVars, stVars, mainVars, smpVars>>

\* what the actions of one component leave alone
notCap == <<gcVars, feVars, winVars, stVars, mainVars, smpVars>>
notGc == <<capVars, feVars, winVars, stVars, mainVars, smpVars>>
notFe == <<capVars, gcVars, winVars, stVars, mainVars, smpVars>>
notWin == <<capVars, gcVars, feVars, stVars, mainVars, smpVars>>
notSt == <<capVars, gcVars, feVars, winVars, mainVars, smpVars>>
notSmp == <<capVars, gcVars, feVars, winVars, stVars, mainVars>>

\* ------------------------------------------------------------ time units
TicksPerSec == 9 * 100
TicksPerCenti == 3 * 3
\* window=3.0 of get_transcript_from_cache, in seconds
DefaultWindowSec == 3
\* the 0.1 s taken off the duration by get_all_frames, in ticks
TailEpsilon == 9 * 10

Abs(x) == IF x < 0 THEN -x ELSE x

\* ------------------------------------------------- transcript (the cache)
\* A row of the transcript CSV as csv.DictReader gives it.  start_sec is
\* <<"num", ticks>> (a numeric text), <<"str">> (a non-numeric text) or
\* <<"empty">> (the empty text), both of which float() rejects with
\* ValueError, or <<"none">> (a short row: DictReader fills None, on which
\* float() raises TypeError).
Row(s, w) == [start_sec |-> s, word |-> w]
Num(x) == <<"num", x>>
TranscriptSample == << Row(Num(1 * TicksPerSec), "hello"),
                       Row(<<"str">>, "bad"),
                       Row(Num(6 * TicksPerSec), "world") >>
TranscriptCaches == { None, Some(TranscriptSample) }

\* Line 39 computes abs(start - timestamp) in IEEE-754 doubles.  For the
\* pairs (start, timestamp) of decimal texts listed here the double result
\* lies above the exact difference of the two decimals: float("4.15") -
\* float("1.15") is 3.0000000000000004.  For every other pair the model
\* uses at a distance of a whole number of seconds the result is exact.
RoundsAbove == { <<415 * TicksPerCenti, 115 * TicksPerCenti>> }

\* Line 39: abs(start - timestamp) <= window, window a whole number of seconds.
WithinWindow(start, timestamp, window) ==
    \/ Abs(start - timestamp) < window
    \/ Abs(start - timestamp) = window /\ <<start, timestamp>> \notin RoundsAbove

\* Lines 33-42: the words of the rows within the window, in file order;
\* raised is set when float() raises something other than ValueError.
RECURSIVE WindowWords(_, _, _)
WindowWords(rows, timestamp, window) ==
    IF rows = <<>> THEN [raised |-> FALSE, words |-> <<>>]
    ELSE LET r == Head(rows)
             rest == WindowWords(Tail(rows), timestamp, window)
         IN  CASE r.start_sec[1] = "none" -> [raised |-> TRUE, words |-> <<>>]
               [] r.start_sec[1] \in {"str", "empty"} -> rest
               [] OTHER ->
                    IF WithinWindow(r.start_sec[2], timestamp, window)
                    THEN [rest EXCEPT !.words = <<r.word>> \o @]
                    ELSE rest

\* The window string is modelled as the sequence of the words it joins.
get_transcript_from_cache(transcript_data, timestamp, window) ==
    IF ~IsSome(transcript_data) \/ Get(transcript_data) = <<>>
    THEN [raised |-> FALSE, words |-> <<"no transcription available">>]
    ELSE LET w == WindowWords(Get(transcript_data), timestamp, window)
         IN  IF w.raised THEN w
             ELSE IF w.words = <<>> THEN [raised |-> FALSE, words |-> <<"silence">>]
             ELSE w

\* Window queries on one loaded transcript.
MaxTokens == 3
HalfSec == 9 * 50
WinTokens ==
    { Row(Num(1 * TicksPerSec), "alpha"), Row(Num(1 * TicksPerSec + HalfSec), "beta"),
      Row(Num(8 * TicksPerSec), "gamma"), Row(Num(5 * TicksPerSec), "delta"),
      Row(Num(415 * TicksPerCenti), "edge"), Row(Num(1 * TicksPerSec), "silence"),
      Row(<<"str">>, "bad"), Row(<<"empty">>, "blank"), Row(<<"none">>, "short"),
      Row(Num(20 * TicksPerSec), "late") }
WinTimestamps == {2 * TicksPerSec, 115 * TicksPerCenti}
WinWindows == {1 * TicksPerSec, DefaultWindowSec * TicksPerSec}

\* Lines 27-46 of global_context_builder.py: the lines of the full
\* transcript, each the second it is labelled with and its words.  line is
\* current_line; a row whose start_sec float() rejects raises.
RECURSIVE TranscriptLines(_, _, _)
TranscriptLines(rows, line, last_ts) ==
    IF rows = <<>>
    THEN [raised |-> FALSE,
          lines |-> IF line # <<>> THEN <<[at |-> last_ts \div TicksPerSec, words |-> line]>>
                    ELSE <<>>]
    ELSE LET r == Head(rows)
         IN  IF r.start_sec[1] # "num" THEN [raised |-> TRUE, lines |-> <<>>]
             ELSE IF r.start_sec[2] - last_ts > 10 * TicksPerSec /\ line # <<>>
             THEN LET rest == TranscriptLines(Tail(rows), <<r.word>>, r.start_sec[2])
                  IN  [rest EXCEPT !.lines = <<[at |-> last_ts \div TicksPerSec,
                                                words |-> line]>> \o @]
             ELSE TranscriptLines(Tail(rows), Append(line, r.word), last_ts)

\* Lines 16-49 of global_context_builder.py.  The file is the one
\* load_transcript_cache reads; every exception of the loop is caught on
\* line 47 and the error text returned in place of the transcript.
get_full_transcript(file) ==
    IF ~IsSome(file) THEN [text |-> "No transcript available", lines |-> <<>>]
    ELSE LET t == TranscriptLines(Get(file), <<>>, 0)
         IN  IF t.raised THEN [text |-> "Error loading transcript.", lines |-> <<>>]
             ELSE [text |-> "lines", lines |-> t.lines]

InitWinIdle ==
    /\ win_rows = None
    /\ win_query = None
    /\ win_full = None

\* Lines 15-26: load_transcript_cache gave None (no file, or reading it
\* failed) or the list of the rows of the file.
InitWin ==
    /\ win_rows \in {None} \cup {Some(q) : q \in UNION {[1..k -> WinTokens] : k \in 0..MaxTokens}}
    /\ win_query = None
    /\ win_full = None

\* Lines 28-44: one call of get_transcript_from_cache.
WindowQuery ==
    /\ \E timestamp \in WinTimestamps, window \in WinWindows :
         win_query' = Some([timestamp |-> timestamp, window |-> window,
                            out |-> get_transcript_from_cache(win_rows, timestamp, window)])
    /\ UNCHANGED <<win_rows, win_full>>

\* Line 109 of global_context_builder.py: one call of get_full_transcript.
FullTranscript ==
    /\ win_full' = Some(get_full_transcript(win_rows))
    /\ UNCHANGED <<win_rows, win_query>>

NextWin ==
    \/ WindowQuery /\ UNCHANGED notWin
    \/ FullTranscript /\ UNCHANGED notWin

\* ------------------------------------------------------- global context
\* The documents the synthesis call can answer with.
DocA == [summary |-> "a talk", narrative_style |-> "presentation",
         entities |-> [people |-> <<[name |-> "Ann", role |-> "speaker",
                                     description |-> "presents the talk"]>>,
                       locations |-> <<"stage">>, objects |-> <<>>],
         speaker_map |-> <<>>, key_moments |-> <<>>]
DocB == [summary |-> "a chat", narrative_style |-> "interview",
         entities |-> [people |-> <<[name |-> "Bob", role |-> "guest",
                                     description |-> "answers questions"]>>,
                       locations |-> <<>>, objects |-> <<"mug">>],
         speaker_map |-> <<>>, key_moments |-> <<>>]
EmptyDict == <<>>

\* Lines 46-58: the text the prompt of every invocation starts with, as the
\* values it is made of.  dict.get gives the default for a missing key.
DictGet(d, k, default) == IF k \in DOMAIN d THEN d[k] ELSE default
format_global_context_for_prompt(global_context) ==
    LET d == global_context[2]
        people == DictGet(DictGet(d, "entities", <<>>), "people", <<>>)
    IN  [summary |-> DictGet(d, "summary", "N/A"),
         style |-> DictGet(d, "narrative_style", "unknown"),
         people |-> [i \in 1..Len(people) |->
                        <<people[i].name, people[i].role, people[i].description>>]]

\* ------------------------------------------------------- caption records
\* float(Path(image_file).stem) of the i-th image file, in ticks
FrameTs(i) == images[i] * TicksPerCenti

\* The stems of the image files of a run on its own: 4.00, 8.00, ...
SampleStem(i) == i * 4 * 100

JTrue == "true"

\* The texts the inference backend can answer with (resp["message"]["content"]).
RespPlain == json_dumps(Obj([description |-> "a scene", entities |-> <<"person">>,
                             actions |-> <<"talking">>]))
RespEcho == json_dumps(Obj([description |-> "a scene", entities |-> <<"person">>,
                            actions |-> <<"talking">>, transcript |-> <<"echoed">>]))
RespList == json_dumps(Arr(<<>>))
RespGarbage == <<"text", "not json">>
Responses == {RespPlain, RespEcho, RespList, RespGarbage}

\* what can go wrong before the response is in hand
BodyFaults == {"none", "missing", "read", "call"}

\* str(e) of the exception each failure raises, inside the description
ErrDescription(f) ==
    CASE f = "window" -> "Processing error: float() argument must be a string or a real number"
      [] f = "read" -> "Processing error: cannot read image"
      [] f = "call" -> "Processing error: inference call failed"
      [] f = "unparsable" -> "Processing error: Expecting value"
      [] f = "nondict" -> "Processing error: object does not support item assignment"
      [] OTHER -> "Processing error: cannot write caption file"

\* Lines 122-127
error_entry(f) == [description |-> ErrDescription(f), entities |-> <<>>,
                   actions |-> <<>>, error |-> JTrue]

\* str(caption) on line 140: a str is itself, a dict gives its repr text.
PyStr(caption, isstr) == IF isstr THEN caption ELSE <<"repr", caption>>

\* Line 140: the document written when the caption cannot be parsed or dumped.
Wrapper(caption, isstr) == [raw |-> PyStr(caption, isstr), error |-> "json_parse_error"]

\* save_caption with the write of a JSON text (the error entry) left out.
save_caption_skips_text(file, caption, isstr, w1, w2) ==
    IF isstr THEN [file |-> file, raised |-> FALSE]
    ELSE IF w1 THEN [file |-> Some(json_dumps(Obj(caption))), raised |-> FALSE]
    ELSE IF w2 THEN [file |-> Some(json_dumps(Obj(Wrapper(caption, isstr)))),
                     raised |-> FALSE]
    ELSE [file |-> file, raised |-> TRUE]

\* save_caption with json.loads applied to whatever it is given: on a dict
\* json.loads raises, and the wrapper is written.
save_caption_parses_always(file, caption, isstr, w1, w2) ==
    IF isstr /\ json_parses(caption) /\ w1
    THEN [file |-> Some(json_dumps(json_loads(caption))), raised |-> FALSE]
    ELSE IF w2 THEN [file |-> Some(json_dumps(Obj(Wrapper(caption, isstr)))),
                     raised |-> FALSE]
    ELSE [file |-> file, raised |-> TRUE]

\* save_caption with a skip-if-exists check in front.
save_caption_skips_existing(file, caption, isstr, w1, w2) ==
    IF IsSome(file) THEN [file |-> file, raised |-> FALSE]
    ELSE IF (IF isstr THEN json_parses(caption) ELSE TRUE) /\ w1
    THEN [file |-> Some(json_dumps(IF isstr THEN json_loads(caption) ELSE Obj(caption))),
          raised |-> FALSE]
    ELSE IF w2 THEN [file |-> Some(json_dumps(Obj(Wrapper(caption, isstr)))),
                     raised |-> FALSE]
    ELSE [file |-> file, raised |-> TRUE]

\* Lines 134-140.  caption is a JSON text or a dict, and the file holds the
\* JSON text json.dump writes.  w1 says whether the write in the try block
\* succeeds (the data can be dumped and the file opened for writing), w2
\* whether the write in the except block does.  A write that cannot open
\* the file leaves it as it was.
save_caption(file, caption, isstr, w1, w2) ==
    LET parsed == IF isstr THEN json_parses(caption) ELSE TRUE
        data == IF isstr THEN json_loads(caption) ELSE Obj(caption)
    IN  IF parsed /\ w1 THEN [file |-> Some(json_dumps(data)), raised |-> FALSE]
        ELSE IF w2 THEN [file |-> Some(json_dumps(Obj(Wrapper(caption, isstr)))),
                         raised |-> FALSE]
        ELSE [file |-> file, raised |-> TRUE]

\* json.load of a caption file (as on lines 92-93 of main_pipeline_v2.py).
load_caption(file) == json_loads(Get(file))

\* The caption store seen through one key.  What save_caption is given: a
\* dict (<<"obj", d>>) or a text; dumps says whether json.dump can
\* serialize it (a dict holding bytes cannot be dumped).
CaptionOk == [description |-> "a scene", entities |-> <<"person">>,
              actions |-> <<"talking">>, transcript |-> <<"hello", "world">>]
CaptionQuiet == [description |-> "an empty room", entities |-> <<>>,
                 actions |-> <<>>, transcript |-> <<"silence">>]
NotDumpable == [description |-> "a scene", thumbnail |-> "bytes"]
StoreInput(caption, isstr, dumps) == [caption |-> caption, isstr |-> isstr, dumps |-> dumps]
StoreInputs ==
    { StoreInput(Obj(CaptionOk), FALSE, TRUE), StoreInput(Obj(CaptionQuiet), FALSE, TRUE),
      StoreInput(Obj(error_entry("call")), FALSE, TRUE),
      StoreInput(Obj(NotDumpable), FALSE, FALSE),
      StoreInput(json_dumps(Obj(CaptionOk)), TRUE, TRUE),
      StoreInput(json_dumps(Obj(error_entry("call"))), TRUE, TRUE),
      StoreInput(RespList, TRUE, TRUE), StoreInput(RespGarbage, TRUE, TRUE),
      StoreInput(<<"text", "{\"description\": \"a sc">>, TRUE, TRUE) }

InitStIdle ==
    /\ st_file = None
    /\ st_call = None

\* Lines 131-140: one call of save_caption for the key; w says whether the
\* file can be opened for writing during the call.
StoreSave ==
    \E in \in StoreInputs, w \in BOOLEAN :
        LET r == save_caption(st_file, IF in.isstr THEN in.caption ELSE in.caption[2],
                              in.isstr, in.dumps /\ w, w)
        IN  /\ st_file' = r.file
            /\ st_call' = Some([in |-> in, writable |-> w, raised |-> r.raised,
                                before |-> st_file, after |-> r.file])

NextSt ==
    \/ StoreSave /\ UNCHANGED notSt

\* ------------------------------------------------------ caption scheduler
\* max_workers=2, the default of process_video_images
DefaultMaxWorkers == 2

Frames == 1..Len(images)
Running == {t \in Frames : task_pc[t] \in {"running", "saving", "handling"}}
AllFinished == \A t \in Frames : task_pc[t] = "finished"
SchedEnded == sched_pc \in {"returned", "raised"}

InitCaptionIdle ==
    /\ images = <<>>
    /\ max_workers = 1
    /\ transcript_cache = None
    /\ global_context_text = None
    /\ sched_pc = "idle"
    /\ submitted = 0
    /\ task_pc = <<>>
    /\ task_res = <<>>
    /\ fault = <<>>
    /\ content = <<>>
    /\ caption_file = <<>>
    /\ yielded = {}
    /\ completed = 0
    /\ lock = FALSE

\* Lines 143-167: the images folder is listed and sorted, the global context
\* is formatted (line 157, not reached without images), the transcript is
\* loaded once, the counter starts at 0.  No caption file exists yet.
InitCaption ==
    /\ \E n \in 0..MaxFrames :
         /\ images = [i \in 1..n |-> SampleStem(i)]
         /\ task_pc = [i \in 1..n |-> "unsubmitted"]
         /\ task_res = [i \in 1..n |-> "none"]
         /\ fault = [i \in 1..n |-> "none"]
         /\ content = [i \in 1..n |-> None]
         /\ caption_file = [i \in 1..n |-> None]
    /\ max_workers \in 1..DefaultMaxWorkers
    /\ transcript_cache \in TranscriptCaches
    /\ global_context_text = IF images = <<>> THEN None
                             ELSE Some(format_global_context_for_prompt(Obj(DocA)))
    /\ sched_pc = "start"
    /\ submitted = 0
    /\ yielded = {}
    /\ completed = 0
    /\ lock = FALSE

\* The record an earlier run left for a frame.
PrevCaption == [description |-> "an earlier scene", entities |-> <<>>,
                actions |-> <<>>, transcript |-> <<"silence">>]

\* Lines 143-167 when the scheduler runs again over the same images: every
\* frame has the caption file of the earlier run.
InitCaptionAgain ==
    /\ \E n \in 0..MaxFrames :
         /\ images = [i \in 1..n |-> SampleStem(i)]
         /\ task_pc = [i \in 1..n |-> "unsubmitted"]
         /\ task_res = [i \in 1..n |-> "none"]
         /\ fault = [i \in 1..n |-> "none"]
         /\ content = [i \in 1..n |-> None]
         /\ caption_file = [i \in 1..n |-> Some(json_dumps(Obj(PrevCaption)))]
    /\ max_workers \in 1..DefaultMaxWorkers
    /\ transcript_cache \in TranscriptCaches
    /\ global_context_text = IF images = <<>> THEN None
                             ELSE Some(format_global_context_for_prompt(Obj(DocA)))
    /\ sched_pc = "start"
    /\ submitted = 0
    /\ yielded = {}
    /\ completed = 0
    /\ lock = FALSE

\* Lines 153-155: nothing to process.
SchedNoImages ==
    /\ sched_pc = "start"
    /\ images = <<>>
    /\ sched_pc' = "returned"
    /\ UNCHANGED <<images, max_workers, transcript_cache, global_context_text, submitted,
                   task_pc, task_res, fault, content, caption_file, yielded, completed,
                   lock>>

\* Lines 171-174: one executor.submit per image, in list order.
SchedSubmit ==
    /\ sched_pc \in {"start", "submit"}
    /\ images # <<>>
    /\ submitted < Len(images)
    /\ submitted' = submitted + 1
    /\ task_pc' = [task_pc EXCEPT ![submitted + 1] = "queued"]
    /\ sched_pc' = IF submitted + 1 = Len(images) THEN "collect" ELSE "submit"
    /\ UNCHANGED <<images, max_workers, transcript_cache, global_context_text, task_res,
                   fault, content, caption_file, yielded, completed, lock>>

\* TaskStart with a thread for every queued task.
TaskStart_unbounded(t) ==
    /\ task_pc[t] = "queued"
    /\ t = Min({u \in Frames : task_pc[u] = "queued"})
    /\ task_pc' = [task_pc EXCEPT ![t] = "running"]
    /\ UNCHANGED <<images, max_workers, transcript_cache, global_context_text, sched_pc,
                   submitted, task_res, fault, content, caption_file, yielded, completed,
                   lock>>

\* TaskStart with the invocation taking the first row off the shared transcript.
TaskStart_trims_cache(t) ==
    /\ task_pc[t] = "queued"
    /\ t = Min({u \in Frames : task_pc[u] = "queued"})
    /\ Cardinality(Running) < max_workers
    /\ task_pc' = [task_pc EXCEPT ![t] = "running"]
    /\ transcript_cache' = IF IsSome(transcript_cache) /\ Get(transcript_cache) # <<>>
                           THEN Some(Tail(Get(transcript_cache))) ELSE transcript_cache
    /\ UNCHANGED <<images, max_workers, global_context_text, sched_pc, submitted, task_res,
                   fault, content, caption_file, yielded, completed, lock>>

\* A pool thread takes the oldest queued task; the pool has max_workers threads.
TaskStart(t) ==
    /\ task_pc[t] = "queued"
    /\ t = Min({u \in Frames : task_pc[u] = "queued"})
    /\ Cardinality(Running) < max_workers
    /\ task_pc' = [task_pc EXCEPT ![t] = "running"]
    /\ UNCHANGED <<images, max_workers, transcript_cache, global_context_text, sched_pc,
                   submitted, task_res, fault, content, caption_file, yielded, completed,
                   lock>>

\* The failure process_single_image meets on lines 65-117 given the
\* environment's fault f and the backend's response resp.
BodyFault(t, f, resp) ==
    LET tr == get_transcript_from_cache(transcript_cache, FrameTs(t),
                                        DefaultWindowSec * TicksPerSec)
    IN  CASE f = "missing" -> "missing"
          [] tr.raised -> "window"
          [] f # "none" -> f
          [] ~json_parses(resp) -> "unparsable"
          [] ~IsObj(json_loads(resp)) -> "nondict"
          [] OTHER -> "none"

\* content_dict with the transcript key set only when the response has none.
ContentDict_keeps_echo(t, resp) ==
    IF "transcript" \in DOMAIN json_loads(resp)[2] THEN json_loads(resp)[2]
    ELSE SetItem(json_loads(resp)[2], "transcript",
                 get_transcript_from_cache(transcript_cache, FrameTs(t),
                                           DefaultWindowSec * TicksPerSec).words)

\* Lines 114-117: content_dict with its transcript key set.
ContentDict(t, resp) ==
    SetItem(json_loads(resp)[2], "transcript",
            get_transcript_from_cache(transcript_cache, FrameTs(t),
                                      DefaultWindowSec * TicksPerSec).words)

\* Lines 65-66: a missing image ends the invocation with no record.
MissingImage(t) ==
    /\ task_pc' = [task_pc EXCEPT ![t] = "finished"]
    /\ task_res' = [task_res EXCEPT ![t] = "missing"]
    /\ UNCHANGED content

\* Lines 62-117: up to the point where something is to be saved.
TaskBody(t) ==
    /\ task_pc[t] = "running"
    /\ \E f \in BodyFaults, resp \in Responses :
         LET bf == BodyFault(t, f, resp)
         IN  /\ fault' = [fault EXCEPT ![t] = bf]
             /\ IF bf = "missing" THEN MissingImage(t)
                ELSE IF bf = "none"
                THEN /\ content' = [content EXCEPT ![t] = Some(ContentDict(t, resp))]
                     /\ task_pc' = [task_pc EXCEPT ![t] = "saving"]
                     /\ UNCHANGED task_res
                ELSE /\ task_pc' = [task_pc EXCEPT ![t] = "handling"]
                     /\ UNCHANGED <<content, task_res>>
    /\ UNCHANGED <<images, max_workers, transcript_cache, global_context_text, sched_pc,
                   submitted, caption_file, yielded, completed, lock>>

\* TaskSave with every invocation writing the caption file of the first frame.
TaskSave_shared_file(t) ==
    /\ task_pc[t] = "saving"
    /\ \E w \in BOOLEAN :
         LET r == save_caption(caption_file[1], Get(content[t]), FALSE, w, w)
         IN  /\ caption_file' = [caption_file EXCEPT ![1] = r.file]
             /\ IF r.raised
                THEN /\ task_pc' = [task_pc EXCEPT ![t] = "handling"]
                     /\ UNCHANGED task_res
                ELSE /\ task_pc' = [task_pc EXCEPT ![t] = "finished"]
                     /\ task_res' = [task_res EXCEPT ![t] = "ok"]
    /\ content' = [content EXCEPT ![t] = None]
    /\ UNCHANGED <<images, max_workers, transcript_cache, global_context_text, sched_pc,
                   submitted, fault, yielded, completed, lock>>

\* Lines 118-119: save_caption(image_file, caption_path, content_dict); an
\* exception it raises is caught on line 121.  w says whether the caption
\* file can be opened for writing during the call.
TaskSave(t) ==
    /\ task_pc[t] = "saving"
    /\ \E w \in BOOLEAN :
         LET r == save_caption(caption_file[t], Get(content[t]), FALSE, w, w)
         IN  /\ caption_file' = [caption_file EXCEPT ![t] = r.file]
             /\ IF r.raised
                THEN /\ task_pc' = [task_pc EXCEPT ![t] = "handling"]
                     /\ UNCHANGED task_res
                ELSE /\ task_pc' = [task_pc EXCEPT ![t] = "finished"]
                     /\ task_res' = [task_res EXCEPT ![t] = "ok"]
    /\ content' = [content EXCEPT ![t] = None]
    /\ UNCHANGED <<images, max_workers, transcript_cache, global_context_text, sched_pc,
                   submitted, fault, yielded, completed, lock>>

\* Lines 121-129: the handler saves the error entry; an exception
\* save_caption raises here leaves process_single_image.
TaskHandler(t) ==
    /\ task_pc[t] = "handling"
    /\ \E w \in BOOLEAN :
         LET f == IF fault[t] = "none" THEN "write" ELSE fault[t]
             r == save_caption(caption_file[t], json_dumps(Obj(error_entry(f))),
                               TRUE, w, w)
         IN  /\ caption_file' = [caption_file EXCEPT ![t] = r.file]
             /\ task_res' = [task_res EXCEPT ![t] = IF r.raised THEN "raised" ELSE "error"]
    /\ task_pc' = [task_pc EXCEPT ![t] = "finished"]
    /\ UNCHANGED <<images, max_workers, transcript_cache, global_context_text, sched_pc,
                   submitted, fault, content, yielded, completed, lock>>

\* Lines 176-177: as_completed yields a finished future and future.result()
\* returns its value or re-raises its exception; the exception leaves the
\* loop, and the with block then waits for the pool.
SchedCollect(t) ==
    /\ sched_pc = "collect"
    /\ task_pc[t] = "finished"
    /\ t \notin yielded
    /\ yielded' = yielded \cup {t}
    /\ IF task_res[t] = "raised"
       THEN sched_pc' = "unwinding"
       ELSE sched_pc' = "locking"
    /\ UNCHANGED <<images, max_workers, transcript_cache, global_context_text, submitted,
                   task_pc, task_res, fault, content, caption_file, completed, lock>>

\* SchedLock with the counter reached without the lock.
SchedLock_skips ==
    /\ sched_pc = "locking"
    /\ ~lock
    /\ lock' = lock
    /\ sched_pc' = "counting"
    /\ UNCHANGED <<images, max_workers, transcript_cache, global_context_text, submitted,
                   task_pc, task_res, fault, content, caption_file, yielded, completed>>

\* Line 178: with lock
SchedLock ==
    /\ sched_pc = "locking"
    /\ ~lock
    /\ lock' = TRUE
    /\ sched_pc' = "counting"
    /\ UNCHANGED <<images, max_workers, transcript_cache, global_context_text, submitted,
                   task_pc, task_res, fault, content, caption_file, yielded, completed>>

\* Lines 179-180: the counter is incremented, the line printed, the lock released.
SchedCount ==
    /\ sched_pc = "counting"
    /\ completed' = completed + 1
    /\ lock' = FALSE
    /\ sched_pc' = "collect"
    /\ UNCHANGED <<images, max_workers, transcript_cache, global_context_text, submitted,
                   task_pc, task_res, fault, content, caption_file, yielded>>

\* The loop is exhausted and the executor shut down: the function returns.
SchedReturn ==
    /\ sched_pc = "collect"
    /\ yielded = Frames
    /\ sched_pc' = "returned"
    /\ UNCHANGED <<images, max_workers, transcript_cache, global_context_text, submitted,
                   task_pc, task_res, fault, content, caption_file, yielded, completed,
                   lock>>

\* The executor's shutdown(wait=True) has let every task end; the exception
\* of future.result() leaves process_video_images.
SchedRaise ==
    /\ sched_pc = "unwinding"
    /\ AllFinished
    /\ sched_pc' = "raised"
    /\ UNCHANGED <<images, max_workers, transcript_cache, global_context_text, submitted,
                   task_pc, task_res, fault, content, caption_file, yielded, completed,
                   lock>>

NextCaption ==
    \/ SchedNoImages /\ UNCHANGED notCap
    \/ SchedSubmit /\ UNCHANGED notCap
    \/ (\E t \in Frames : TaskStart(t)) /\ UNCHANGED notCap
    \/ (\E t \in Frames : TaskBody(t)) /\ UNCHANGED notCap
    \/ (\E t \in Frames : TaskSave(t)) /\ UNCHANGED notCap
    \/ (\E t \in Frames : TaskHandler(t)) /\ UNCHANGED notCap
    \/ (\E t \in Frames : SchedCollect(t)) /\ UNCHANGED notCap
    \/ SchedLock /\ UNCHANGED notCap
    \/ SchedCount /\ UNCHANGED notCap
    \/ SchedReturn /\ UNCHANGED notCap
    \/ SchedRaise /\ UNCHANGED notCap

\* -------------------------------------------------- global context builder
\* max_frames=8 of the call on line 100
MaxSampleFrames == 8

SynthResponses == {json_dumps(Obj(DocA)), json_dumps(Obj(DocB)), json_dumps(Obj(EmptyDict)),
                   <<"text", "not json">>}

\* Python's truth value of a loaded JSON value: an empty dict or list is false.
Truthy(v) == DOMAIN v[2] # {}

\* Lines 66-67 compute int(i * step) in IEEE-754 doubles, step the double
\* nearest to n / (max_frames - 1).  For the triples <<max_frames, n, i>>
\* listed here i * step lies just below the whole number i * n / (max_frames
\* - 1), so int() gives one less: 11 * (30 / 22) is 14.999999999999998.  For
\* every other triple the model uses the double product has the exact floor.
RoundsBelow == { <<23, 30, 11>> }

\* Line 67: int(i * step), an index from 0.
StepIndex(i, n, max_frames) ==
    ((i * n) \div (max_frames - 1)) - (IF <<max_frames, n, i>> \in RoundsBelow THEN 1 ELSE 0)

\* Lines 63-69: the indices (from 1) sample_keyframes keeps out of n images.
sample_keyframes(n, max_frames) ==
    LET idx == IF n <= max_frames THEN 1..n
               ELSE {StepIndex(i, n, max_frames) + 1 : i \in 0..(max_frames - 2)} \cup {n}
        RECURSIVE Sorted(_)
        Sorted(S) == IF S = {} THEN <<>> ELSE <<Min(S)>> \o Sorted(S \ {Min(S)})
    IN  Sorted(idx)

\* Calls of sample_keyframes on their own: the number of image files in
\* the folder and the max_frames of the call.
MaxImages == 30
SampleSizes == {2, 3, MaxSampleFrames, 23}

InitSmpIdle ==
    /\ smp_in = None
    /\ smp_out = None

InitSmp ==
    /\ smp_in \in {Some([n |-> n, max_frames |-> m]) : n \in 0..MaxImages, m \in SampleSizes}
    /\ smp_out = None

\* Lines 51-72: one call of sample_keyframes.
SampleCall ==
    /\ smp_out' = Some(sample_keyframes(Get(smp_in).n, Get(smp_in).max_frames))
    /\ UNCHANGED smp_in

NextSmp ==
    \/ SampleCall /\ UNCHANGED notSmp

\* The record of a finished call of execute is kept until two more have finished.
Logged(log, entry) == IF Len(log) < 2 THEN Append(log, entry) ELSE <<log[2], entry>>

\* Lines 182-188
load_global_context(file) == IF IsSome(file) THEN file ELSE None

\* Lines 193-194: "if existing" holds of a loaded document that is true.
Existing(file) ==
    IF IsSome(load_global_context(file)) THEN Truthy(Get(load_global_context(file)))
    ELSE FALSE

\* Lines 173-180
save_global_context(context) == Some(context)

\* Lines 163-171: what the except block of _synthesize_context evaluates to.
\* Its return expression is a set display {{...}} whose one element is a dict,
\* so evaluating it raises TypeError (unhashable type) and nothing is returned.
SynthesisFallback == [raised |-> TRUE, value |-> None]

\* Lines 155-171: the outcome of _synthesize_context when the call raises
\* (call_ok = FALSE) or answers with the text resp.
synthesize_context(call_ok, resp) ==
    IF call_ok /\ json_parses(resp)
    THEN [raised |-> FALSE, value |-> Some(json_loads(resp))]
    ELSE SynthesisFallback

InitGcIdle ==
    /\ gc_file = None
    /\ gc_images = 0
    /\ gc_pc = "off"
    /\ gc_force = FALSE
    /\ gc_sampled = <<>>
    /\ gc_desc = <<>>
    /\ gc_context = None
    /\ gc_calls = 0
    /\ gc_log = <<>>

\* No global_context.json has been written yet.
InitGc ==
    /\ gc_file = None
    /\ gc_images \in 0..MaxGcImages
    /\ gc_pc = "idle"
    /\ gc_force = FALSE
    /\ gc_sampled = <<>>
    /\ gc_desc = <<>>
    /\ gc_context = None
    /\ gc_calls = 0
    /\ gc_log = <<>>

\* Frames are extracted again between two calls: the images folder changes.
GcFramesChange ==
    /\ gc_pc = "idle"
    /\ \E n \in 0..MaxGcImages : n # gc_images /\ gc_images' = n
    /\ UNCHANGED <<gc_file, gc_pc, gc_force, gc_sampled, gc_desc, gc_context, gc_calls,
                   gc_log>>

\* Lines 192-195: execute(force_rebuild=False) finds a document and returns it.
GcExecuteCached ==
    /\ gc_pc = "idle"
    /\ Existing(gc_file)
    /\ gc_calls' = 0
    /\ gc_file' = gc_file
    /\ gc_log' = Logged(gc_log, [force |-> FALSE, before |-> gc_file,
                                 returned |-> load_global_context(gc_file),
                                 raised |-> FALSE, synth |-> "none", built |-> FALSE,
                                 calls |-> 0, after |-> gc_file])
    /\ UNCHANGED <<gc_images, gc_pc, gc_force, gc_sampled, gc_desc, gc_context>>

\* Lines 192-197 and 99-102: execute goes on to build_global_context, which
\* samples the frames.
GcExecuteBuild(force) ==
    /\ gc_pc = "idle"
    /\ force \/ ~Existing(gc_file)
    /\ gc_force' = force
    /\ gc_sampled' = sample_keyframes(gc_images, MaxSampleFrames)
    /\ gc_desc' = <<>>
    /\ gc_calls' = 0
    /\ gc_context' = None
    /\ gc_pc' = "pass1"
    /\ UNCHANGED <<gc_file, gc_images, gc_log>>

\* Lines 74-91: the description of a frame, or the placeholder when the call raises.
get_frame_description(i, call_ok) ==
    IF call_ok THEN <<"description of frame", i>> ELSE <<"analysis failed", i>>

\* GcDescribe with a frame whose call raises left out of the build.
GcDescribe_drops_failed ==
    /\ gc_pc = "pass1"
    /\ Len(gc_desc) < Len(gc_sampled)
    /\ \E call_ok \in BOOLEAN :
         IF call_ok
         THEN /\ gc_desc' = Append(gc_desc,
                                   get_frame_description(gc_sampled[Len(gc_desc) + 1], TRUE))
              /\ UNCHANGED gc_sampled
         ELSE /\ gc_sampled' = SubSeq(gc_sampled, 1, Len(gc_desc))
                                 \o SubSeq(gc_sampled, Len(gc_desc) + 2, Len(gc_sampled))
              /\ UNCHANGED gc_desc
    /\ gc_calls' = gc_calls + 1
    /\ UNCHANGED <<gc_file, gc_images, gc_pc, gc_force, gc_context, gc_log>>

\* Lines 103-106: one pass-1 call for the next sampled frame.
GcDescribe ==
    /\ gc_pc = "pass1"
    /\ Len(gc_desc) < Len(gc_sampled)
    /\ \E call_ok \in BOOLEAN :
         gc_desc' = Append(gc_desc,
                           get_frame_description(gc_sampled[Len(gc_desc) + 1], call_ok))
    /\ gc_calls' = gc_calls + 1
    /\ UNCHANGED <<gc_file, gc_images, gc_pc, gc_force, gc_sampled, gc_context, gc_log>>

\* GcSynthesize with pass 2 not waiting for the loop of pass 1 to end.
GcSynthesize_early ==
    /\ gc_pc = "pass1"
    /\ gc_calls' = gc_calls + 1
    /\ \E call_ok \in BOOLEAN, resp \in SynthResponses :
         LET r == synthesize_context(call_ok, resp)
             synth == IF ~call_ok THEN "call_failed"
                      ELSE IF ~json_parses(resp) THEN "unparsable" ELSE "ok"
         IN  IF r.raised
             THEN /\ gc_pc' = "idle"
                  /\ gc_context' = None
                  /\ gc_sampled' = <<>>
                  /\ gc_desc' = <<>>
                  /\ gc_file' = gc_file
                  /\ gc_log' = Logged(gc_log, [force |-> gc_force, before |-> gc_file,
                                               returned |-> None, raised |-> TRUE,
                                               synth |-> synth, built |-> TRUE,
                                               calls |-> gc_calls', after |-> gc_file])
             ELSE /\ gc_pc' = "save"
                  /\ gc_context' = r.value
                  /\ UNCHANGED <<gc_file, gc_log, gc_sampled, gc_desc>>
    /\ UNCHANGED <<gc_images, gc_force>>

\* Lines 108-112: pass 2.  When _synthesize_context raises, the exception
\* leaves build_global_context and execute: nothing is saved.
GcSynthesize ==
    /\ gc_pc = "pass1"
    /\ Len(gc_desc) = Len(gc_sampled)
    /\ gc_calls' = gc_calls + 1
    /\ \E call_ok \in BOOLEAN, resp \in SynthResponses :
         LET r == synthesize_context(call_ok, resp)
             synth == IF ~call_ok THEN "call_failed"
                      ELSE IF ~json_parses(resp) THEN "unparsable" ELSE "ok"
         IN  IF r.raised
             THEN /\ gc_pc' = "idle"
                  /\ gc_context' = None
                  /\ gc_sampled' = <<>>
                  /\ gc_desc' = <<>>
                  /\ gc_file' = gc_file
                  /\ gc_log' = Logged(gc_log, [force |-> gc_force, before |-> gc_file,
                                               returned |-> None, raised |-> TRUE,
                                               synth |-> synth, built |-> TRUE,
                                               calls |-> gc_calls', after |-> gc_file])
             ELSE /\ gc_pc' = "save"
                  /\ gc_context' = r.value
                  /\ UNCHANGED <<gc_file, gc_log, gc_sampled, gc_desc>>
    /\ UNCHANGED <<gc_images, gc_force>>

\* Lines 198-199: the context is saved and returned.
GcSave ==
    /\ gc_pc = "save"
    /\ gc_file' = save_global_context(Get(gc_context))
    /\ gc_log' = Logged(gc_log, [force |-> gc_force, before |-> gc_file,
                                 returned |-> gc_context, raised |-> FALSE,
                                 synth |-> "ok", built |-> TRUE,
                                 calls |-> gc_calls, after |-> gc_file'])
    /\ gc_pc' = "idle"
    /\ gc_context' = None
    /\ gc_sampled' = <<>>
    /\ gc_desc' = <<>>
    /\ UNCHANGED <<gc_images, gc_force, gc_calls>>

NextGc ==
    \/ GcFramesChange /\ UNCHANGED notGc
    \/ GcExecuteCached /\ UNCHANGED notGc
    \/ (\E force \in BOOLEAN : GcExecuteBuild(force)) /\ UNCHANGED notGc
    \/ GcDescribe /\ UNCHANGED notGc
    \/ GcSynthesize /\ UNCHANGED notGc
    \/ GcSave /\ UNCHANGED notGc

\* ------------------------------------------------------ timestamp planner
\* f"{x:.2f}": x ticks rounded to the nearest centisecond (the text is
\* modelled as its number of centiseconds).
Fmt2(x) == (x + 4) \div TicksPerCenti

\* Lines 125-146: what iteration i of the loop appends.
PlanStep(kfs, dur, i) ==
    IF i = 1 THEN << Fmt2(kfs[1]) >>
    ELSE IF i = Len(kfs)
    THEN LET t0 == kfs[i]
             t1 == dur - TailEpsilon
             t_inter_1 == t0 + (t1 - t0) \div 3
             t_inter_2 == t0 + (2 * (t1 - t0)) \div 3
         IN  << Fmt2(t0), Fmt2(t_inter_1), Fmt2(t_inter_2), Fmt2(t1) >>
    ELSE LET t0 == kfs[i]
             t1 == kfs[i + 1]
             t_inter_1 == t0 + (t1 - t0) \div 3
             t_inter_2 == t0 + (2 * (t1 - t0)) \div 3
         IN  << Fmt2(t0), Fmt2(t_inter_1), Fmt2(t_inter_2) >>

\* Lines 122-146: all_frames after the loop over range(len(keyframes)).
RECURSIVE PlanUpTo(_, _, _)
PlanUpTo(kfs, dur, i) ==
    IF i = 0 THEN <<>> ELSE PlanUpTo(kfs, dur, i - 1) \o PlanStep(kfs, dur, i)

get_all_frames(kfs, dur) == PlanUpTo(kfs, dur, Len(kfs))

\* Line 130 runs only in the iteration of a last keyframe that is not the first.
NeedsDuration(kfs) == Len(kfs) >= 2

\* The keyframe timestamps and durations tried, in ticks (multiples of 3).
KeyTimes == {0, 300, 900, 1800}
Durations == {900, 1830, 1890, 2700}
IsSorted(q) == \A i \in 1..(Len(q) - 1) : q[i] <= q[i + 1]
KeyframeLists ==
    {q \in UNION {[1..k -> KeyTimes] : k \in 0..MaxKeyframes} : IsSorted(q)}

InitFeIdle ==
    /\ keyframes = <<>>
    /\ duration = 0
    /\ video_exists = FALSE
    /\ fe_pc = "off"
    /\ fe_keyframes = <<>>
    /\ keyframes_file = None
    /\ all_frames_file = None
    /\ image_files = {}

\* The video: its keyframes are ordered by timestamp and none lies after its end.
InitFe ==
    /\ keyframes \in KeyframeLists
    /\ duration \in Durations
    /\ keyframes # <<>> => keyframes[Len(keyframes)] <= duration
    /\ video_exists \in BOOLEAN
    /\ fe_pc = "start"
    /\ fe_keyframes = <<>>
    /\ keyframes_file = None
    /\ all_frames_file = None
    /\ image_files = {}

\* Lines 206-208: the video file is missing; execute prints and returns.
FeNoVideo ==
    /\ fe_pc = "start"
    /\ ~video_exists
    /\ fe_pc' = "returned_no_video"
    /\ UNCHANGED <<keyframes, duration, video_exists, fe_keyframes, keyframes_file,
                   all_frames_file, image_files>>

\* Lines 211-215: extract_keyframe_offsets; a failed probe raises.
FeProbe ==
    /\ fe_pc = "start"
    /\ video_exists
    /\ \E probe_ok \in BOOLEAN :
         IF probe_ok
         THEN fe_keyframes' = keyframes /\ fe_pc' = "save_keyframes"
         ELSE fe_keyframes' = fe_keyframes /\ fe_pc' = "raised"
    /\ UNCHANGED <<keyframes, duration, video_exists, keyframes_file, all_frames_file,
                   image_files>>

\* Line 216: save_keyframes writes keyframes.json in every branch.
FeSaveKeyframes ==
    /\ fe_pc = "save_keyframes"
    /\ keyframes_file' = Some(fe_keyframes)
    /\ fe_pc' = "plan"
    /\ UNCHANGED <<keyframes, duration, video_exists, fe_keyframes, all_frames_file,
                   image_files>>

\* Line 217: get_all_frames computes the plan and writes all_frames.json;
\* a failed duration probe (line 131) raises before anything is written.
FePlan ==
    /\ fe_pc = "plan"
    /\ \E probe_ok \in BOOLEAN :
         IF probe_ok \/ ~NeedsDuration(fe_keyframes)
         THEN /\ all_frames_file' = Some(get_all_frames(fe_keyframes, duration))
              /\ fe_pc' = "extract"
         ELSE /\ all_frames_file' = all_frames_file
              /\ fe_pc' = "raised"
    /\ UNCHANGED <<keyframes, duration, video_exists, fe_keyframes, keyframes_file,
                   image_files>>

\* Lines 218-219: extract_frames reads all_frames.json and writes one image
\* per timestamp whose frame can be read (none when the video cannot be opened).
FeExtract ==
    /\ fe_pc = "extract"
    /\ \E read \in SUBSET {Get(all_frames_file)[i] : i \in 1..Len(Get(all_frames_file))} :
         image_files' = read
    /\ fe_pc' = "returned"
    /\ UNCHANGED <<keyframes, duration, video_exists, fe_keyframes, keyframes_file,
                   all_frames_file>>

NextFe ==
    \/ FeNoVideo /\ UNCHANGED notFe
    \/ FeProbe /\ UNCHANGED notFe
    \/ FeSaveKeyframes /\ UNCHANGED notFe
    \/ FePlan /\ UNCHANGED notFe
    \/ FeExtract /\ UNCHANGED notFe

\* ------------------------------------------------------------ the pipeline
\* max_workers=4, the default of main and of ci_enhanced.execute
DefaultMainWorkers == 4

\* images.sort(key=lambda x: float(Path(x).stem))
RECURSIVE SortedSeq(_)
SortedSeq(S) == IF S = {} THEN <<>> ELSE <<Min(S)>> \o SortedSeq(S \ {Min(S)})

\* Lines 15-26 of caption_images_enhanced.py: the rows of the CSV, or None
\* when there is no file.
load_transcript_cache(file) == IF IsSome(file) THEN file ELSE None

\* transcription.execute (lines 185-194).  Line 186 evaluates
\* video_path.name, which a str does not have: AttributeError.  Given a Path
\* it demuxes and transcribes the audio and writes the CSV, or raises when the
\* audio cannot be processed.
tr_execute(video_path_is_str, can_transcribe, file) ==
    IF video_path_is_str THEN [raised |-> TRUE, file |-> file]
    ELSE IF can_transcribe THEN [raised |-> FALSE, file |-> Some(TranscriptSample)]
    ELSE [raised |-> TRUE, file |-> file]

\* The videos and the earlier results a run of main meets.
MainKeyframeLists == { <<0>>, <<0, 900>> }
MainDuration == 9 * 210
MainImageSets == { {}, {SampleStem(1)}, {SampleStem(1), SampleStem(2)} }
MainContexts == { None, Some(Obj(DocA)), Some(Obj(EmptyDict)) }

InitMainIdle ==
    /\ main_pc = "off"
    /\ skip_extraction = FALSE
    /\ force_rebuild_context = FALSE
    /\ audio_ok = FALSE
    /\ main_return = None
    /\ phases = <<>>
    /\ transcript_file = None

\* A call of main.  With skip_extraction the frames and the transcript of an
\* earlier run are there (or are not), and the video is not looked at;
\* without it nothing has been extracted yet.  No caption file exists.
InitMain ==
    /\ InitCaptionIdle /\ InitWinIdle /\ InitStIdle /\ InitSmpIdle
    /\ main_pc = "start"
    /\ skip_extraction \in BOOLEAN
    /\ force_rebuild_context \in BOOLEAN
    /\ main_return = None
    /\ phases = <<>>
    /\ IF skip_extraction
       THEN /\ video_exists = TRUE /\ audio_ok = TRUE
            /\ keyframes = <<0>>
            /\ image_files \in MainImageSets
            /\ transcript_file \in TranscriptCaches
       ELSE /\ video_exists \in BOOLEAN /\ audio_ok \in BOOLEAN
            /\ keyframes \in MainKeyframeLists
            /\ image_files = {}
            /\ transcript_file = None
    /\ duration = MainDuration
    /\ fe_pc = "off"
    /\ fe_keyframes = <<>>
    /\ keyframes_file = None
    /\ all_frames_file = None
    /\ gc_file \in MainContexts
    /\ gc_images = Cardinality(image_files)
    /\ gc_pc = "idle"
    /\ gc_force = FALSE
    /\ gc_sampled = <<>>
    /\ gc_desc = <<>>
    /\ gc_context = None
    /\ gc_calls = 0
    /\ gc_log = <<>>

\* Lines 143-147: an exception of a phase ends main with None.
MainFails ==
    /\ main_pc' = "returned"
    /\ main_return' = Some("None")

\* Lines 123-124 and 25-30: phase 1, get_frames calls fe.execute.
MainGetFrames ==
    /\ main_pc = "start"
    /\ ~skip_extraction
    /\ main_pc' = "frames"
    /\ phases' = Append(phases, "extract")
    /\ fe_pc' = "start"
    /\ UNCHANGED <<keyframes, duration, video_exists, fe_keyframes, keyframes_file,
                   all_frames_file, image_files>>
    /\ UNCHANGED <<skip_extraction, force_rebuild_context, audio_ok, main_return,
                   transcript_file>>
    /\ UNCHANGED <<capVars, gcVars, winVars, stVars, smpVars>>

\* Lines 126-127: phases 1 and 2 are skipped.
MainSkipExtraction ==
    /\ main_pc = "start"
    /\ skip_extraction
    /\ main_pc' = "context"
    /\ UNCHANGED <<skip_extraction, force_rebuild_context, audio_ok, main_return, phases,
                   transcript_file>>
    /\ UNCHANGED <<capVars, gcVars, feVars, winVars, stVars, smpVars>>

\* Line 124: fe.execute raised (a failed probe).
MainFramesRaised ==
    /\ main_pc = "frames"
    /\ fe_pc = "raised"
    /\ MainFails
    /\ UNCHANGED <<skip_extraction, force_rebuild_context, audio_ok, phases,
                   transcript_file>>
    /\ UNCHANGED <<capVars, gcVars, feVars, winVars, stVars, smpVars>>

\* Lines 125 and 33-47: fe.execute has returned (also when it found no
\* video), and phase 2, get_transcript, calls tr.execute with the str main
\* made of video_path.
MainGetTranscript ==
    /\ main_pc = "frames"
    /\ fe_pc \in {"returned", "returned_no_video"}
    /\ phases' = Append(phases, "transcribe")
    /\ LET r == tr_execute(TRUE, audio_ok, transcript_file)
       IN  /\ transcript_file' = r.file
           /\ IF r.raised THEN MainFails
              ELSE main_pc' = "context" /\ UNCHANGED main_return
    /\ gc_images' = Cardinality(image_files)
    /\ UNCHANGED <<gc_file, gc_pc, gc_force, gc_sampled, gc_desc, gc_context, gc_calls,
                   gc_log>>
    /\ UNCHANGED <<skip_extraction, force_rebuild_context, audio_ok>>
    /\ UNCHANGED <<capVars, feVars, winVars, stVars, smpVars>>

\* Lines 130 and 49-57: phase 3, gcb.execute finds a document and returns it.
MainContextCached ==
    /\ main_pc = "context"
    /\ ~force_rebuild_context
    /\ GcExecuteCached
    /\ main_pc' = "caption"
    /\ phases' = Append(phases, "context")
    /\ UNCHANGED <<skip_extraction, force_rebuild_context, audio_ok, main_return,
                   transcript_file>>
    /\ UNCHANGED <<capVars, feVars, winVars, stVars, smpVars>>

\* Lines 130 and 49-57: phase 3, gcb.execute goes on to build the context.
MainContextBuild ==
    /\ main_pc = "context"
    /\ GcExecuteBuild(force_rebuild_context)
    /\ main_pc' = "context_build"
    /\ phases' = Append(phases, "context")
    /\ UNCHANGED <<skip_extraction, force_rebuild_context, audio_ok, main_return,
                   transcript_file>>
    /\ UNCHANGED <<capVars, feVars, winVars, stVars, smpVars>>

\* The call of gcb.execute in progress has ended, by returning or by raising.
GcCallEnded == gc_pc = "idle" /\ gc_log # <<>>
GcCallRaised == gc_log[Len(gc_log)].raised

\* Line 130: gcb.execute has returned or raised.
MainContextBuilt ==
    /\ main_pc = "context_build"
    /\ GcCallEnded
    /\ IF GcCallRaised THEN MainFails
       ELSE main_pc' = "caption" /\ UNCHANGED main_return
    /\ UNCHANGED <<skip_extraction, force_rebuild_context, audio_ok, phases,
                   transcript_file>>
    /\ UNCHANGED <<capVars, gcVars, feVars, winVars, stVars, smpVars>>

\* Lines 133, 59-65 and 183-184 of caption_images_enhanced.py: phase 4,
\* ci_enhanced.execute loads the global context and finds it true.
MainCaptionLoaded ==
    /\ main_pc = "caption"
    /\ Existing(gc_file)
    /\ main_pc' = "caption_list"
    /\ phases' = Append(phases, "caption")
    /\ UNCHANGED <<skip_extraction, force_rebuild_context, audio_ok, main_return,
                   transcript_file>>
    /\ UNCHANGED <<capVars, gcVars, feVars, winVars, stVars, smpVars>>

\* Lines 183-186 of caption_images_enhanced.py: the loaded context is not
\* true and gcb.execute(video_file) is called.
MainCaptionBuild ==
    /\ main_pc = "caption"
    /\ ~Existing(gc_file)
    /\ GcExecuteBuild(FALSE)
    /\ main_pc' = "caption_build"
    /\ phases' = Append(phases, "caption")
    /\ UNCHANGED <<skip_extraction, force_rebuild_context, audio_ok, main_return,
                   transcript_file>>
    /\ UNCHANGED <<capVars, feVars, winVars, stVars, smpVars>>

\* Line 186 of caption_images_enhanced.py: that call has returned or raised.
MainCaptionBuilt ==
    /\ main_pc = "caption_build"
    /\ GcCallEnded
    /\ IF GcCallRaised THEN MainFails
       ELSE main_pc' = "caption_list" /\ UNCHANGED main_return
    /\ UNCHANGED <<skip_extraction, force_rebuild_context, audio_ok, phases,
                   transcript_file>>
    /\ UNCHANGED <<capVars, gcVars, feVars, winVars, stVars, smpVars>>

\* Lines 143-167 of caption_images_enhanced.py: process_video_images lists
\* and sorts the images, formats the global context ci_enhanced.execute holds
\* (the document loaded or just built and saved) and loads the transcript.
MainCaptionList ==
    /\ main_pc = "caption_list"
    /\ main_pc' = "caption_run"
    /\ images' = SortedSeq(image_files)
    /\ max_workers' = DefaultMainWorkers
    /\ transcript_cache' = load_transcript_cache(transcript_file)
    /\ global_context_text' = IF image_files = {} THEN None
                              ELSE Some(format_global_context_for_prompt(Get(gc_file)))
    /\ sched_pc' = "start"
    /\ submitted' = 0
    /\ task_pc' = [i \in 1..Cardinality(image_files) |-> "unsubmitted"]
    /\ task_res' = [i \in 1..Cardinality(image_files) |-> "none"]
    /\ fault' = [i \in 1..Cardinality(image_files) |-> "none"]
    /\ content' = [i \in 1..Cardinality(image_files) |-> None]
    /\ caption_file' = [i \in 1..Cardinality(image_files) |-> None]
    /\ yielded' = {}
    /\ completed' = 0
    /\ lock' = FALSE
    /\ UNCHANGED <<skip_extraction, force_rebuild_context, audio_ok, main_return, phases,
                   transcript_file>>
    /\ UNCHANGED <<gcVars, feVars, winVars, stVars, smpVars>>

\* Line 133: process_video_images has returned or raised.
MainCaptionDone ==
    /\ main_pc = "caption_run"
    /\ SchedEnded
    /\ IF sched_pc = "raised" THEN MainFails
       ELSE main_pc' = "report" /\ UNCHANGED main_return
    /\ UNCHANGED <<skip_extraction, force_rebuild_context, audio_ok, phases,
                   transcript_file>>
    /\ UNCHANGED <<capVars, gcVars, feVars, winVars, stVars, smpVars>>

\* save_caption makes the captions folder (line 132 of
\* caption_images_enhanced.py): it exists once an invocation has saved.
CaptionFolderExists == \E t \in Frames : task_res[t] \in {"ok", "error", "raised"}

\* Lines 136-141 and 69-105: generate_summary_report loads the global
\* context and lists the captions folder (os.listdir raises when there is
\* none); then main returns caption_path.
MainReport ==
    /\ main_pc = "report"
    /\ phases' = Append(phases, "report")
    /\ main_pc' = "returned"
    /\ main_return' = IF CaptionFolderExists /\ IsSome(load_global_context(gc_file))
                      THEN Some("caption_path") ELSE Some("None")
    /\ UNCHANGED <<skip_extraction, force_rebuild_context, audio_ok, transcript_file>>
    /\ UNCHANGED <<capVars, gcVars, feVars, winVars, stVars, smpVars>>

NextMain ==
    \/ MainGetFrames
    \/ MainSkipExtraction
    \/ FeNoVideo /\ UNCHANGED notFe
    \/ FeProbe /\ UNCHANGED notFe
    \/ FeSaveKeyframes /\ UNCHANGED notFe
    \/ FePlan /\ UNCHANGED notFe
    \/ FeExtract /\ UNCHANGED notFe
    \/ MainFramesRaised
    \/ MainGetTranscript
    \/ MainContextCached
    \/ MainContextBuild
    \/ GcDescribe /\ UNCHANGED notGc
    \/ GcSynthesize /\ UNCHANGED notGc
    \/ GcSave /\ UNCHANGED notGc
    \/ MainContextBuilt
    \/ MainCaptionLoaded
    \/ MainCaptionBuild
    \/ MainCaptionBuilt
    \/ MainCaptionList
    \/ SchedNoImages /\ UNCHANGED notCap
    \/ SchedSubmit /\ UNCHANGED notCap
    \/ (\E t \in Frames : TaskStart(t)) /\ UNCHANGED notCap
    \/ (\E t \in Frames : TaskBody(t)) /\ UNCHANGED notCap
    \/ (\E t \in Frames : TaskSave(t)) /\ UNCHANGED notCap
    \/ (\E t \in Frames : TaskHandler(t)) /\ UNCHANGED notCap
    \/ (\E t \in Frames : SchedCollect(t)) /\ UNCHANGED notCap
    \/ SchedLock /\ UNCHANGED notCap
    \/ SchedCount /\ UNCHANGED notCap
    \/ SchedReturn /\ UNCHANGED notCap
    \/ SchedRaise /\ UNCHANGED notCap
    \/ MainCaptionDone
    \/ MainReport

\* --------------------------------------------------------- specifications
\* The caption scheduler alone.
InitSched == InitCaption /\ InitGcIdle /\ InitFeIdle /\ InitWinIdle /\ InitStIdle
    /\ InitMainIdle /\ InitSmpIdle
SpecCaption == InitSched /\ [][NextCaption]_vars

\* The global context builder alone.
InitBuilder == InitCaptionIdle /\ InitGc /\ InitFeIdle /\ InitWinIdle /\ InitStIdle
    /\ InitMainIdle /\ InitSmpIdle
SpecGcb == InitBuilder /\ [][NextGc]_vars

\* The frame extractor alone.
InitPlanner == InitCaptionIdle /\ InitGcIdle /\ InitFe /\ InitWinIdle /\ InitStIdle
    /\ InitMainIdle /\ InitSmpIdle
SpecPlan == InitPlanner /\ [][NextFe]_vars

\* Window queries alone.
InitWindow == InitCaptionIdle /\ InitGcIdle /\ InitFeIdle /\ InitWin /\ InitStIdle
    /\ InitMainIdle /\ InitSmpIdle
SpecWindow == InitWindow /\ [][NextWin]_vars

\* The caption scheduler run a second time.
InitRerun == InitCaptionAgain /\ InitGcIdle /\ InitFeIdle /\ InitWinIdle /\ InitStIdle
    /\ InitMainIdle /\ InitSmpIdle
SpecRerun == InitRerun /\ [][NextCaption]_vars

\* A run of main.
SpecMain == InitMain /\ [][NextMain]_vars

\* The caption store alone; no caption file exists yet.
InitStore == InitCaptionIdle /\ InitGcIdle /\ InitFeIdle /\ InitWinIdle /\ InitStIdle
    /\ InitMainIdle /\ InitSmpIdle
SpecStore == InitStore /\ [][NextSt]_vars

\* Calls of sample_keyframes alone.
InitSample == InitCaptionIdle /\ InitGcIdle /\ InitFeIdle /\ InitWinIdle /\ InitStIdle
    /\ InitMainIdle /\ InitSmp
SpecSample == InitSample /\ [][NextSmp]_vars

\* ------------------------------------------------------------------ claims
\* C1: when a run of the scheduler over N image files has finished and every
\* image was there to be read, each of the N frames has a caption file and the
\* completed count is N, whichever inference calls failed (all of them included).
C1_OneRecordPerFrame ==
    (sched_pc = "returned" /\ \A t \in Frames : task_res[t] # "missing")
        => /\ \A t \in Frames : IsSome(caption_file[t])
           /\ completed = Len(images)

\* A finished run of two frames in which every inference call raised.
C1_Witness ==
    /\ sched_pc = "returned"
    /\ Len(images) = 2
    /\ \A t \in Frames : fault[t] = "call" /\ IsSome(caption_file[t])
    /\ completed = 2

\* C2: an invocation that has failed because the image is missing, the
\* inference call raised or the response is not JSON has persisted the error
\* record: error true, no entities, no actions, a description naming the failure.
C2_FailureRecord ==
    \A t \in Frames :
        (task_pc[t] = "finished" /\ fault[t] \in {"missing", "call", "unparsable"}
            /\ task_res[t] # "raised")
        => /\ IsSome(caption_file[t])
           /\ load_caption(caption_file[t]) = Obj(error_entry(fault[t]))

\* C4: a failed task of a run (a write that failed included) neither keeps the
\* other tasks from finishing nor the scheduler from collecting every result
\* and returning normally.
C4_FailureIsolated ==
    SchedEnded => /\ AllFinished
                  /\ sched_pc = "returned"
                  /\ completed = Len(images)

\* The GlobalContext the fallback of _synthesize_context is meant to be.
FallbackContext ==
    [summary |-> "Video context synthesis failed", narrative_style |-> "unknown",
     entities |-> [people |-> <<>>, locations |-> <<>>, objects |-> <<>>],
     speaker_map |-> <<>>, key_moments |-> <<>>]

\* C3: a call of execute whose synthesis call raised or answered with
\* something that is not JSON returns normally, with the fallback GlobalContext.
C3_FallbackOnSynthesisFailure ==
    \A i \in 1..Len(gc_log) :
        gc_log[i].synth \in {"call_failed", "unparsable"}
        => /\ ~gc_log[i].raised
           /\ gc_log[i].returned = Some(Obj(FallbackContext))

\* C5: of two calls of execute in a row with force_rebuild = False, the first
\* having returned a document, the second returns the same document and
\* issues no inference call.
C5_LoadIsIdempotent ==
    (/\ Len(gc_log) = 2
     /\ ~gc_log[1].force /\ ~gc_log[2].force
     /\ ~gc_log[1].raised)
        => /\ gc_log[2].returned = gc_log[1].returned
           /\ gc_log[2].calls = 0

\* C6: a call with force_rebuild = True runs both passes and overwrites the
\* persisted document; a call with force_rebuild = False that finds a
\* persisted document returns it and runs no pass; either way the document
\* returned is the document persisted afterwards.
C6_ForceAndCache ==
    \A i \in 1..Len(gc_log) :
        LET e == gc_log[i]
        IN  /\ e.force => (e.built /\ ~e.raised /\ e.after = e.returned)
            /\ (~e.force /\ IsSome(e.before))
                  => (~e.built /\ e.calls = 0 /\ e.returned = e.before)
            /\ (e.force \/ IsSome(e.before))
                  => (IsSome(e.returned) /\ e.returned = e.after)

\* The plan persisted for a non-empty keyframe list.
Planned == IsSome(all_frames_file) /\ Len(fe_keyframes) >= 1
Plan == Get(all_frames_file)

\* C7: the plan of k >= 2 keyframes has 3*(k-1) + 4 entries, the plan of one
\* keyframe has 4.
C7_PlanLength ==
    Planned => Len(Plan) = IF Len(fe_keyframes) >= 2
                           THEN 3 * (Len(fe_keyframes) - 1) + 4 ELSE 4

\* C8: the plan of a non-empty ordered keyframe list, the duration being at
\* least the last keyframe's timestamp, never decreases and starts with the
\* first keyframe's timestamp at 2 decimals.
C8_PlanNonDecreasing ==
    Planned => /\ \A i \in 1..(Len(Plan) - 1) : Plan[i] <= Plan[i + 1]
               /\ Plan[1] = Fmt2(fe_keyframes[1])

\* C9: the last entry of the plan of a non-empty keyframe list (one
\* keyframe included) is the duration minus 0.1 s at 2 decimals.
C9_PlanEndsNearDuration ==
    Planned => Plan[Len(Plan)] = Fmt2(duration - TailEpsilon)

\* C10: with an empty keyframe list planning fails: no plan is persisted and
\* frame extraction does not run.
C10_EmptyKeyframesFail ==
    (fe_pc \in {"plan", "extract", "returned"} /\ fe_keyframes = <<>>)
        => /\ all_frames_file = None
           /\ fe_pc = "plan"

\* The window the claims speak of: token x lies within radius r of t.
InWindow(x, t, r) == x.start_sec[1] = "num" /\ Abs(x.start_sec[2] - t) <= r
WellFormed(x) == x.start_sec[1] = "num"
WordsOf(rows) == [i \in 1..Len(rows) |-> rows[i].word]
Queried == IsSome(win_query)
Query == Get(win_query)
HoldsData == IsSome(win_rows) /\ Get(win_rows) # <<>>
TokensWithin == SelectSeq(Get(win_rows), LAMBDA x : InWindow(x, Query.timestamp, Query.window))

\* C12: a query on a transcript of well-formed tokens, some of them within
\* the window, returns the words of exactly the tokens with
\* |start_sec - t| <= r, boundaries included, whatever the order of the tokens.
C12_WindowExact ==
    (/\ Queried /\ HoldsData
     /\ \A i \in 1..Len(Get(win_rows)) : WellFormed(Get(win_rows)[i])
     /\ TokensWithin # <<>>)
        => /\ ~Query.out.raised
           /\ Query.out.words = WordsOf(TokensWithin)

\* C13: a query returns "no transcription available" exactly when the
\* transcript is absent or empty, "silence" exactly when it holds data but no
\* token lies within the window, and otherwise a string that is neither.
C13_Placeholders ==
    Queried
        => /\ ~Query.out.raised
           /\ Query.out.words = <<"no transcription available">> <=> ~HoldsData
           /\ Query.out.words = <<"silence">> <=> (HoldsData /\ TokensWithin = <<>>)

\* C14: a query on a transcript with malformed rows (start_sec not numeric,
\* empty or missing) does not raise and returns what the well-formed rows
\* alone give.
C14_MalformedSkipped ==
    (Queried /\ HoldsData)
        => LET rest == WindowWords(SelectSeq(Get(win_rows), WellFormed),
                                   Query.timestamp, Query.window)
           IN  /\ ~Query.out.raised
               /\ Query.out.words = IF rest.words = <<>> THEN <<"silence">> ELSE rest.words

\* The last call of save_caption and what it was given.
Saved == IsSome(st_call)
Call == Get(st_call)
CaptionRecordKeys == {"description", "entities", "actions", "transcript", "error"}
\* The CaptionRecord document the call was given, as a dict or as its JSON text.
GivenRecord ==
    IF ~Call.in.isstr THEN Some(Call.in.caption)
    ELSE IF json_parses(Call.in.caption) THEN Some(json_loads(Call.in.caption))
    ELSE None
IsCaptionRecord(v) ==
    IF IsObj(v)
    THEN {"description", "entities", "actions"} \subseteq DOMAIN v[2]
         /\ DOMAIN v[2] \subseteq CaptionRecordKeys
    ELSE FALSE
Malformed ==
    \/ Call.in.isstr /\ ~json_parses(Call.in.caption)
    \/ ~Call.in.dumps

\* C16: every call of save_caption returns normally and leaves a file for
\* the key; when the input is a text that is not JSON or a dict that cannot
\* be dumped, the file holds the wrapper {raw, error: "json_parse_error"}.
C16_SaveLeavesFile ==
    Saved => /\ ~Call.raised
             /\ IsSome(Call.after)
             /\ Malformed => load_caption(Call.after)
                                = Obj(Wrapper(IF Call.in.isstr THEN Call.in.caption
                                              ELSE Call.in.caption[2], Call.in.isstr))

\* C17: a CaptionRecord document given to a call of save_caption that has
\* returned is, loaded back from the file, the same document field for field.
C17_RoundTrip ==
    (Saved /\ ~Call.raised /\ IsSome(GivenRecord))
        => (IsCaptionRecord(Get(GivenRecord))
                => load_caption(Call.after) = Get(GivenRecord))

\* A record saved as a dict over the file another record had left.
C17_Witness ==
    /\ Saved /\ ~Call.raised
    /\ Call.in = StoreInput(Obj(CaptionOk), FALSE, TRUE)
    /\ Call.before = Some(json_dumps(Obj(error_entry("call"))))
    /\ load_caption(st_file) = Obj(CaptionOk)

\* The window string process_single_image computes for frame t (lines 70-71).
WindowString(t) ==
    get_transcript_from_cache(transcript_cache, FrameTs(t),
                              DefaultWindowSec * TicksPerSec).words

\* C15: the record persisted by an invocation that ended successfully has
\* as its transcript field the window string computed for the frame, whether
\* or not the response carried a transcript of its own.
C15_TranscriptIsWindow ==
    \A t \in Frames :
        task_res[t] = "ok"
        => /\ IsSome(caption_file[t])
           /\ load_caption(caption_file[t])[2].transcript = WindowString(t)

\* The second frame captioned successfully, with the one word of its window.
C15_Witness ==
    /\ Len(images) = 2
    /\ task_res[2] = "ok"
    /\ transcript_cache = Some(TranscriptSample)
    /\ load_caption(caption_file[2])[2].transcript = <<"world">>

\* The record this run's invocation for frame t persists.
RecordOfRun(t) ==
    IF task_res[t] = "ok" THEN Obj(ContentDict(t, RespPlain))
    ELSE Obj(error_entry(IF fault[t] = "none" THEN "write" ELSE fault[t]))

\* C18: a second run over the same frames, every frame having the caption
\* file of the first run, that has returned and found every image in place
\* has captioned every frame again and overwritten every caption file with
\* this run's record; the frames with a caption file are the same as before.
C18_RerunOverwrites ==
    (sched_pc = "returned" /\ \A t \in Frames : task_res[t] # "missing")
        => /\ \A t \in Frames :
                /\ task_res[t] \in {"ok", "error"}
                /\ IsSome(caption_file[t])
                /\ caption_file[t] # Some(json_dumps(Obj(PrevCaption)))
                /\ load_caption(caption_file[t]) = RecordOfRun(t)
           /\ {t \in Frames : IsSome(caption_file[t])} = Frames

\* A second run of two frames, one captioned and one whose call raised.
C18_Witness ==
    /\ sched_pc = "returned"
    /\ Len(images) = 2
    /\ task_res[1] = "ok" /\ task_res[2] = "error" /\ fault[2] = "call"
    /\ \A t \in Frames : load_caption(caption_file[t]) = RecordOfRun(t)

\* A fatal setup error: the video is missing or a probe has failed.
SetupFailed == fe_pc \in {"returned_no_video", "raised"}
MainReturned == main_pc = "returned"

\* C11: a run of main that met a fatal setup error has started no phase
\* after the extraction, has returned the failure value, and has left none
\* of the files a run writes: keyframe list, frame plan, images, transcript.
C11_SetupErrorAborts ==
    (MainReturned /\ SetupFailed)
        => /\ phases = <<"extract">>
           /\ main_return = Some("None")
           /\ keyframes_file = None
           /\ all_frames_file = None
           /\ image_files = {}
           /\ transcript_file = None

\* Nothing but inference calls of caption workers has failed: the video and
\* its audio are usable and the probes worked (when extraction is not
\* skipped), the synthesis call returned JSON, every image was found and
\* read, the transcript rows were usable and every caption file was written.
OnlyCaptionCallsFailed ==
    /\ skip_extraction \/ (video_exists /\ audio_ok /\ fe_pc = "returned")
    /\ \A i \in 1..Len(gc_log) : gc_log[i].synth \in {"none", "ok"}
    /\ \A t \in Frames :
         /\ fault[t] \in {"none", "call", "unparsable", "nondict"}
         /\ task_res[t] \in {"ok", "error"}
         /\ fault[t] = "none" => task_res[t] = "ok"

\* C19: a run of main in which nothing but inference calls of caption
\* workers failed returns the caption store path, however many of them failed.
C19_PerFrameFailuresTolerated ==
    (MainReturned /\ OnlyCaptionCallsFailed) => main_return = Some("caption_path")

\* C20: a run of main with skip_extraction = False in which the extraction,
\* the transcription and every inference call could succeed has started the
\* phases extract, transcribe, context, caption in this order and has returned
\* the caption store path.
C20_PhasesInOrder ==
    (/\ MainReturned /\ ~skip_extraction
     /\ video_exists /\ audio_ok /\ fe_pc = "returned"
     /\ \A i \in 1..Len(gc_log) : gc_log[i].synth \in {"none", "ok"}
     /\ \A t \in Frames : fault[t] = "none")
        => /\ Len(phases) >= 4
           /\ SubSeq(phases, 1, 4) = <<"extract", "transcribe", "context", "caption">>
           /\ main_return = Some("caption_path")

\* The entries of the plan that lie strictly between two timestamps.
PlanBetween(t0, t1) == SelectSeq(Plan, LAMBDA x : Fmt2(t0) < x /\ x < Fmt2(t1))

\* C21: in the plan persisted for a keyframe list, between every two
\* consecutive keyframes t0 < t1, the first pair included, lie exactly two
\* entries, t0 + (t1 - t0)/3 and t0 + 2(t1 - t0)/3 at 2 decimals.
C21_ThirdsBetweenKeyframes ==
    Planned =>
        \A i \in 1..(Len(fe_keyframes) - 1) :
            LET t0 == fe_keyframes[i]
                t1 == fe_keyframes[i + 1]
            IN  t0 < t1 => PlanBetween(t0, t1) = << Fmt2(t0 + (t1 - t0) \div 3),
                                                    Fmt2(t0 + (2 * (t1 - t0)) \div 3) >>

\* A step of the build in progress: the pass-2 call, and a pass-1 call.
Pass2Step == gc_pc = "pass1" /\ gc_pc' # "pass1"
Pass1Step == Len(gc_desc') > Len(gc_desc)

\* C22: the synthesis call of a build is issued only when the description
\* call of every sampled frame has finished, and a description call is
\* issued only while every call of the build so far was a description call.
C22_Pass2AfterPass1 ==
    [][/\ Pass2Step => Len(gc_desc) = Len(gc_sampled)
       /\ Pass1Step => (gc_pc = "pass1" /\ gc_calls = Len(gc_desc))]_vars

\* A build of two frames that has gone through pass 2 after two pass-1 calls.
C22_Witness ==
    /\ gc_pc = "save"
    /\ Len(gc_sampled) = 2 /\ Len(gc_desc) = 2
    /\ gc_calls = 3

\* The frames a build samples, as indices into the sorted images.
SampledFrames == sample_keyframes(gc_images, MaxSampleFrames)

\* C23: what the synthesis call is given holds exactly one description
\* entry per sampled frame, in timestamp order, a placeholder standing for
\* each frame whose call failed, whichever calls failed.
C23_NoFrameDropped ==
    [][Pass2Step =>
         /\ Len(gc_desc) = Len(SampledFrames)
         /\ \A i \in 1..Len(gc_desc) :
              /\ gc_desc[i][2] = SampledFrames[i]
              /\ gc_desc[i][1] \in {"description of frame", "analysis failed"}
         /\ \A i \in 1..(Len(gc_desc) - 1) : gc_desc[i][2] < gc_desc[i + 1][2]]_vars

\* A build whose first description call failed and whose second did not.
C23_Witness ==
    /\ gc_pc = "save"
    /\ gc_desc = << <<"analysis failed", 1>>, <<"description of frame", 2>> >>

\* The last call of sample_keyframes: its arguments and the indices (from
\* 1, into the frames sorted by timestamp) of the frames it returned.
Sampled == IsSome(smp_out)
SampleN == Get(smp_in).n
SampleM == Get(smp_in).max_frames
SampleOut == Get(smp_out)
FloorIndices(n, m) == {((i * n) \div (m - 1)) + 1 : i \in 0..(m - 2)} \cup {n}
WithinBounds ==
    /\ \A k \in 1..Len(SampleOut) : SampleOut[k] \in 1..SampleN
    /\ Len(SampleOut) <= SampleM
    /\ SampleN >= 1 => (SampleOut[1] = 1 /\ SampleOut[Len(SampleOut)] = SampleN)

\* C24: a call with n frames and max_frames = m >= 2 returns all n frames
\* when n <= m and otherwise exactly the frames at the indices
\* floor(i*n/(m-1)), 0 <= i <= m-2, and n-1, each once and in order; every
\* index is within bounds, at most m frames are returned, and the first
\* and the last frame are among them.
C24_EvenSample ==
    Sampled =>
        /\ \A k \in 1..(Len(SampleOut) - 1) : SampleOut[k] < SampleOut[k + 1]
        /\ {SampleOut[k] : k \in 1..Len(SampleOut)}
             = IF SampleN <= SampleM THEN 1..SampleN ELSE FloorIndices(SampleN, SampleM)
        /\ WithinBounds

\* The last call of get_full_transcript and the words of its lines, in order.
FullCalled == IsSome(win_full) /\ IsSome(win_rows)
RECURSIVE WordsOfLines(_)
WordsOfLines(lines) ==
    IF lines = <<>> THEN <<>> ELSE Head(lines).words \o WordsOfLines(Tail(lines))

\* C29: the full transcript of a transcript file holds, in its lines, the
\* word of every row with a numeric start_sec exactly once and in file
\* order, malformed rows in the file or not.
C29_FullTranscriptKeepsTokens ==
    FullCalled =>
        /\ Get(win_full).text = "lines"
        /\ WordsOfLines(Get(win_full).lines) = WordsOf(SelectSeq(Get(win_rows), WellFormed))

\* C25: during a run of the scheduler at most max_workers invocations of
\* process_single_image are in progress at any moment, all tasks having
\* been submitted before the first result is collected.
C25_BoundedConcurrency ==
    /\ Cardinality(Running) <= max_workers
    /\ yielded # {} => submitted = Len(images)

\* Both tasks submitted to a pool of one thread: one runs, the other waits.
C25_Witness ==
    /\ max_workers = 1
    /\ submitted = 2
    /\ Cardinality(Running) = 1
    /\ \E t \in Frames : task_pc[t] = "queued"

\* A step of the invocation for frame t.
WorkerStep(t) == task_pc[t] \in {"running", "saving", "handling"} /\ task_pc'[t] # task_pc[t]

\* C26: the image files of a run have distinct names, the caption file of
\* a frame is written only by a step of the frame's own invocation, and a
\* step of an invocation changes nothing of another invocation's and
\* nothing the invocations share.
C26_OneWriterPerKey ==
    /\ [](\A t, u \in Frames : t # u => images[t] # images[u])
    /\ [][\A t \in Frames :
            /\ caption_file'[t] # caption_file[t] => WorkerStep(t)
            /\ WorkerStep(t) =>
                 /\ \A u \in Frames \ {t} :
                      /\ task_pc'[u] = task_pc[u] /\ task_res'[u] = task_res[u]
                      /\ fault'[u] = fault[u] /\ content'[u] = content[u]
                      /\ caption_file'[u] = caption_file[u]
                 /\ UNCHANGED <<images, transcript_cache, global_context_text,
                                completed, lock>>]_vars

\* The first frame's error record written, the second invocation about to save.
C26_Witness ==
    /\ Len(images) = 2
    /\ task_res[1] = "error" /\ IsSome(caption_file[1])
    /\ task_pc[2] = "saving" /\ IsSome(content[2])
    /\ caption_file[2] = None

\* C30: the completed count is 0 until results are collected, changes only
\* while the lock is held and then by exactly 1, to the number of results
\* collected so far, and is the number of submitted frames when the
\* scheduler returns.
C30_CounterCounts ==
    /\ [](sched_pc \in {"start", "submit"} => completed = 0)
    /\ [](sched_pc = "returned" => (completed = submitted /\ submitted = Len(images)))
    /\ [][completed' # completed => /\ lock
                                    /\ completed' = completed + 1
                                    /\ completed' = Cardinality(yielded)]_vars

\* The scheduler about to count the second of two results under the lock.
C30_Witness ==
    /\ sched_pc = "counting"
    /\ lock
    /\ completed = 1
    /\ Cardinality(yielded) = 2

\* C28: from the submission of the first task until the scheduler ends,
\* no step changes the transcript in memory, the formatted global context
\* or the persisted global context document.
C28_SharedInputsReadOnly ==
    [][(main_pc = "caption_run" /\ submitted >= 1 /\ ~SchedEnded)
          => UNCHANGED <<transcript_cache, global_context_text, gc_file>>]_vars

\* A run of main whose scheduler has returned from two frames, transcript
\* and global context being as they were loaded.
C28_Witness ==
    /\ main_pc = "caption_run"
    /\ sched_pc = "returned"
    /\ Len(images) = 2
    /\ \A t \in Frames : task_res[t] = "ok"
    /\ transcript_cache = Some(TranscriptSample)
    /\ global_context_text = Some(format_global_context_for_prompt(Get(gc_file)))

\* The two-pass builds of the run: those that have ended and the one in progress.
BuildsEnded == {i \in 1..Len(gc_log) : gc_log[i].built}
BuildsOfRun == Cardinality(BuildsEnded) + (IF gc_pc \in {"pass1", "save"} THEN 1 ELSE 0)

\* C27: in a run of main the two-pass build is executed at most once, and
\* the global context the caption workers are handed is the document that
\* build persisted, whatever document the build produced.
C27_BuiltOnce ==
    /\ BuildsOfRun <= 1
    /\ \A i \in BuildsEnded :
         (~gc_log[i].raised /\ IsSome(global_context_text))
            => global_context_text = Some(format_global_context_for_prompt(Get(gc_log[i].after)))

====
